---- MODULE Spec2Model ----
(***************************************************************************)
(* Model of the gmail-organizer synchronization engine:                    *)
(*   - the IMAP session pool of internal/gcp (Gmail, NewGmail, Close,      *)
(*     getIMAPConnection, releaseIMAPConnection),                          *)
(*   - the migration pipeline of the worker job (Run, the Collector, the   *)
(*     Migration Workers and the per-message append/update decision).      *)
(* SpecPool is the pool with callers that run the shapes of the remote     *)
(* operations (one session, or a nested acquisition as AppendMessage and   *)
(* UpdateMessage do); Spec is one or two passes of the job.                *)
(***************************************************************************)
EXTENDS Integers, Sequences, FiniteSets

\* ------------------------------------------------------------ bounds ----
\* connLimit handed to NewGmail (the jobs pass 15).
ConnLimit == 2
\* Goroutines calling the pool's operations concurrently.
NCallers == 2
\* Replacement sessions the factory may create after the initial fill.
MaxRepl == 1
\* getConnTimeout in clock ticks (the jobs pass one hour).
GetConnTimeout == 2
\* Messages in the source's "[Gmail]/All Mail".
NSrc == 2
\* messageMigrationWorkers (the worker job starts 10).
NWorkers == 2
\* messageMigrationConcurrency, the capacity of messagesCh (5000).
QueueCap == 1
\* messageEnvelopeFetchBatchSize (500).
BatchSize == 1
\* Remote commands that may fail, or fetches that may come back short,
\* over the passes of one behaviour.
MaxFaults == 1
\* Passes of the job over the same two accounts.
MaxPasses == 2
\* Requests the HTTP server of the push worker handles at the same time.
NHandlers == 2
\* Deliveries of one Pub/Sub message.
MaxDeliveries == 3
\* Message identifiers a mailbox may hold, in the scheduler's view.
NIds == 2
\* The scheduler's chunk size (50_000).
ChunkSize == 1
\* Length of the strings handed to the case conversion.
MaxCaseLen == 4
\* Lengths and batch sizes for which the chunking itself is examined.
ProbeLen == 4
ProbeSize == 2

Callers == 1..NCallers
\* NewGmail's loop with `i <= connLimit`: one goroutine too many.
FillIdsOffByOne == 1..(ConnLimit + 1)
\* NewGmail's loop `for i = 0; i < connLimit; i++`: one goroutine per session.
FillIds == 1..ConnLimit
MaxSess == ConnLimit + MaxRepl
SessIds == 1..MaxSess
SrcUIDs == 1..NSrc
MsgIds == 1..NSrc
Workers == 1..NWorkers
Handlers == 1..NHandlers

VARIABLES
  \* ---- session pool (Gmail) ----
  conns,        \* g.conns: the buffered channel of idle sessions (FIFO)
  closed,       \* g.conns has been closed
  sess,         \* session -> "new" | "live" | "dead" | "out"
  fillPending,  \* initial-fill goroutines that have not finished
  nrepl,        \* replacement sessions created so far
  closer,       \* Close(): "running" (not called) | "draining" | "done"
  pc,           \* caller -> position in its operation
  kind,         \* caller -> "single" | "nested"
  held,         \* caller -> sequence of sessions it holds (outer first)
  waited,       \* caller -> ticks its getIMAPConnection timer has run
  panicked,     \* "none" or the panic that ended the process
  \* ---- the shared context ----
  cancelled,    \* ctx.Done() is closed
  \* ---- the two accounts and the job's configuration ----
  cfg,          \* [srcMid, maxCount, dryRun, tgt0]: fixed over a behaviour
  target,       \* target "[Gmail]/All Mail": sequence of messages, UID = index
  tgtBoxes,     \* mailbox names of the target
  \* ---- WorkerJob ----
  pass,         \* number of the pass being run
  runPc,        \* Run: "mailboxes" | "select" | "returned"
  runRes,       \* what Run returned: "none" while it runs
  done,         \* Run's count of workers that returned nil
  collPc,       \* collectMessagesForMigration's position
  allUIDs,      \* the Collector's working set
  chunkNo,      \* chunks fetched so far
  batch,        \* messages of the current chunk not yet enqueued
  collErrCh,    \* collectionErrorCh (capacity 1)
  messagesCh,   \* j.messagesCh
  chClosed,     \* j.messagesCh has been closed
  wpc,          \* worker -> position in migrateMessages / migrateMessage
  wreq,         \* worker -> the request it is migrating
  migErrCh,     \* migrationErrorCh (capacity NWorkers)
  \* ---- bookkeeping ----
  faults,       \* failed or short remote commands so far
  appends,      \* pass -> APPEND commands the target executed
  updates,      \* pass -> requests that took the update path
  passEnd,      \* pass -> [res, len]: Run's result and the target's size then
  \* --- the scheduler job and the push-subscription worker ---
  delivered,    \* deliveries of the migration request made by the subscription
  hpc,          \* handler -> where its HandleRequest stands ("idle": none runs)
  schedIn,      \* mailbox -> [src, tgt, inTgt]: what the accounts hold
  schedPc,      \* runJob: "idle", "loop", "done" or "failed"
  schedTodo,    \* mailboxes the loop of runJob has not visited yet
  ledger,       \* the chunk documents written: [mailboxName, messageIDs]
  taskCount,    \* TaskCount of the worker job execution the scheduler started
  taskRes,      \* task index -> outcome of the worker task ("none": running)
  \* --- the case conversion of the configuration layer ---
  casePc,       \* "idle", "call" (before the call) or "done"
  caseIn,       \* the string handed to CamelCaseToUpperSnakeCase
  caseOut       \* what it returned

poolVars == <<conns, closed, sess, fillPending, nrepl, closer, pc, kind, held,
              waited, panicked>>

acctVars == <<cfg, target, tgtBoxes>>
runVars == <<pass, runPc, runRes, done>>
collVars == <<collPc, allUIDs, chunkNo, batch, collErrCh>>
chanVars == <<messagesCh, chClosed>>
workVars == <<wpc, wreq, migErrCh>>
histVars == <<faults, appends, updates, passEnd>>

pipeVars == <<acctVars, runVars, collVars, chanVars, workVars, histVars>>

schedVars == <<schedIn, schedPc, schedTodo, ledger>>
svcVars == <<delivered, hpc, schedVars>>
taskVars == <<taskCount, taskRes>>
caseVars == <<casePc, caseIn, caseOut>>
extVars == <<taskVars, caseVars>>

vars == <<poolVars, cancelled, pipeVars, svcVars, extVars>>

\* ------------------------------------------------------ pool helpers ----
Running == panicked = "none"

\* Sessions that exist: created and not logged out.
Existing == {s \in SessIds : sess[s] \in {"live", "dead"}}

RECURSIVE SumHeld(_)
SumHeld(S) ==
  IF S = {} THEN 0
  ELSE LET c == CHOOSE x \in S : TRUE IN Len(held[c]) + SumHeld(S \ {c})

\* Number of sessions checked out of the pool.
CheckedOut == SumHeld(Callers)

InSeq(s, q) == \E i \in 1..Len(q) : q[i] = s

Holders(s) == {c \in Callers : InSeq(s, held[c])}

\* A health check that is skipped: every session passes.
NoopAlwaysOK(s) == TRUE
\* c.Noop() on a session: succeeds on a live connection only.
NoopOK(s) == sess[s] = "live"

\* A receive that leaves the session in the idle set.
RecvRestPeek(q) == q
\* What `c := <-g.conns` leaves in the channel.
RecvRest(q) == Tail(q)

\* A release after which the caller keeps its handle on the session.
AfterReleaseKeeps(h) == h
\* What the caller still holds once its deferred release() has run.
AfterRelease(h) == SubSeq(h, 1, Len(h) - 1)

\* The session id the factory hands out for the n-th replacement.
FreshSess(n) == ConnLimit + n + 1

PoolInit ==
  /\ conns = <<>>
  /\ closed = FALSE
  /\ sess = [s \in SessIds |-> "new"]
  /\ fillPending = FillIds
  /\ nrepl = 0
  /\ closer = "running"
  /\ pc = [c \in Callers |-> "idle"]
  /\ kind = [c \in Callers |-> "single"]
  /\ held = [c \in Callers |-> <<>>]
  /\ waited = [c \in Callers |-> 0]
  /\ panicked = "none"

\* --------------------------------------------------- pool operations ----
\* NewGmail's goroutine i: g.factory(ctx), then g.conns <- c, or a warning.
FillOK(i) ==
  /\ Running
  /\ i \in fillPending
  /\ fillPending' = fillPending \ {i}
  /\ sess' = [sess EXCEPT ![i] = "live"]
  /\ IF closed
       THEN /\ panicked' = "fill: send on closed channel"
            /\ UNCHANGED conns
       ELSE /\ Len(conns) < ConnLimit
            /\ conns' = Append(conns, i)
            /\ UNCHANGED panicked
  /\ UNCHANGED <<closed, nrepl, closer, pc, kind, held, waited>>
  /\ UNCHANGED <<cancelled, pipeVars, svcVars, extVars>>

FillFail(i) ==
  /\ Running
  /\ i \in fillPending
  /\ fillPending' = fillPending \ {i}
  /\ UNCHANGED <<conns, closed, sess, nrepl, closer, pc, kind, held, waited, panicked>>
  /\ UNCHANGED <<cancelled, pipeVars, svcVars, extVars>>

\* A caller enters an operation of Gmail: the operation's first statement is
\* getIMAPConnection, whose timer starts now.
StartOp(c, k) ==
  /\ Running
  /\ pc[c] = "idle"
  /\ pc' = [pc EXCEPT ![c] = "acquire"]
  /\ kind' = [kind EXCEPT ![c] = k]
  /\ waited' = [waited EXCEPT ![c] = 0]
  /\ UNCHANGED <<conns, closed, sess, fillPending, nrepl, closer, held, panicked>>
  /\ UNCHANGED <<cancelled, pipeVars, svcVars, extVars>>

\* What an operation does once getIMAPConnection returned an error: the
\* operation returns it; an outer operation waiting for a nested one returns
\* too, through its deferred release.
AfterAcquireError(c) == IF held[c] = <<>> THEN "idle" ELSE "after"

\* getIMAPConnection, case c := <-g.conns, with the NOOP and, on a bad
\* session, its logout.
AcquireRecv(c) ==
  /\ Running
  /\ pc[c] = "acquire"
  /\ \/ /\ conns # <<>>
        /\ LET s == Head(conns) IN
             /\ conns' = RecvRest(conns)
             /\ IF NoopOK(s)
                  THEN /\ held' = [held EXCEPT ![c] = Append(@, s)]
                       /\ pc' = [pc EXCEPT ![c] = "using"]
                       /\ UNCHANGED sess
                  ELSE /\ sess' = [sess EXCEPT ![s] = "out"]
                       /\ pc' = [pc EXCEPT ![c] = "replace"]
                       /\ UNCHANGED held
        /\ waited' = [waited EXCEPT ![c] = 0]
        /\ UNCHANGED panicked
     \/ /\ conns = <<>>
        /\ closed
        /\ panicked' = "acquire: nil connection from pool"
        /\ UNCHANGED <<conns, sess, held, pc, waited>>
  /\ UNCHANGED <<closed, fillPending, nrepl, closer, kind>>
  /\ UNCHANGED <<cancelled, pipeVars, svcVars, extVars>>

\* getIMAPConnection, the factory call replacing a discarded session.
ReplaceOK(c) ==
  /\ Running
  /\ pc[c] = "replace"
  /\ nrepl < MaxRepl
  /\ LET s == FreshSess(nrepl) IN
       /\ sess' = [sess EXCEPT ![s] = "live"]
       /\ held' = [held EXCEPT ![c] = Append(@, s)]
  /\ nrepl' = nrepl + 1
  /\ pc' = [pc EXCEPT ![c] = "using"]
  /\ UNCHANGED <<conns, closed, fillPending, closer, kind, waited,
                 panicked>>
  /\ UNCHANGED <<cancelled, pipeVars, svcVars, extVars>>

ReplaceFail(c) ==
  /\ Running
  /\ pc[c] = "replace"
  /\ pc' = [pc EXCEPT ![c] = AfterAcquireError(c)]
  /\ UNCHANGED <<conns, closed, sess, fillPending, nrepl, closer, kind, held,
                 waited, panicked>>
  /\ UNCHANGED <<cancelled, pipeVars, svcVars, extVars>>

\* getIMAPConnection, case <-timer.C.
AcquireTimeout(c) ==
  /\ Running
  /\ pc[c] = "acquire"
  /\ waited[c] = GetConnTimeout
  /\ pc' = [pc EXCEPT ![c] = AfterAcquireError(c)]
  /\ waited' = [waited EXCEPT ![c] = 0]
  /\ UNCHANGED <<conns, closed, sess, fillPending, nrepl, closer, kind, held, panicked>>
  /\ UNCHANGED <<cancelled, pipeVars, svcVars, extVars>>

\* Time passes for the callers blocked in getIMAPConnection's select: no
\* session can be received and no timer has expired.
Tick ==
  /\ Running
  /\ \E c \in Callers : pc[c] = "acquire"
  /\ conns = <<>>
  /\ ~closed
  /\ \A c \in Callers : pc[c] = "acquire" => waited[c] < GetConnTimeout
  /\ waited' = [c \in Callers |->
                  IF pc[c] = "acquire" THEN waited[c] + 1 ELSE waited[c]]
  /\ UNCHANGED <<conns, closed, sess, fillPending, nrepl, closer, pc, kind,
                 held, panicked>>
  /\ UNCHANGED <<cancelled, pipeVars, svcVars, extVars>>

\* AppendMessage and UpdateMessage call FindUIDByMessageID while they hold
\* their own session: a second getIMAPConnection on the same pool.
NestedCall(c) ==
  /\ Running
  /\ pc[c] = "using"
  /\ kind[c] = "nested"
  /\ Len(held[c]) = 1
  /\ pc' = [pc EXCEPT ![c] = "acquire"]
  /\ waited' = [waited EXCEPT ![c] = 0]
  /\ UNCHANGED <<conns, closed, sess, fillPending, nrepl, closer, kind, held, panicked>>
  /\ UNCHANGED <<cancelled, pipeVars, svcVars, extVars>>

\* The deferred release() of an operation: releaseIMAPConnection on the
\* session acquired last, g.conns <- c.
Release(c) ==
  /\ Running
  /\ pc[c] \in {"using", "after"}
  /\ held[c] # <<>>
  /\ LET s == held[c][Len(held[c])] IN
       IF closed
         THEN /\ panicked' = "release: send on closed channel"
              /\ UNCHANGED <<conns, held, pc>>
         ELSE /\ Len(conns) < ConnLimit
              /\ conns' = Append(conns, s)
              /\ held' = [held EXCEPT ![c] = AfterRelease(@)]
              /\ pc' = [pc EXCEPT ![c] = IF Len(held[c]) = 2
                                           THEN "after" ELSE "idle"]
              /\ UNCHANGED panicked
  /\ UNCHANGED <<closed, sess, fillPending, nrepl, closer, kind, waited>>
  /\ UNCHANGED <<cancelled, pipeVars, svcVars, extVars>>

\* Gmail.Close: close(g.conns), then the range loop logging out what is idle.
CloseStart ==
  /\ Running
  /\ closer = "running"
  /\ closed' = TRUE
  /\ closer' = "draining"
  /\ UNCHANGED <<conns, sess, fillPending, nrepl, pc, kind, held, waited, panicked>>
  /\ UNCHANGED <<cancelled, pipeVars, svcVars, extVars>>

CloseDrain ==
  /\ Running
  /\ closer = "draining"
  /\ IF conns # <<>>
       THEN /\ sess' = [sess EXCEPT ![Head(conns)] = "out"]
            /\ conns' = Tail(conns)
            /\ UNCHANGED closer
       ELSE /\ closer' = "done"
            /\ UNCHANGED <<sess, conns>>
  /\ UNCHANGED <<closed, fillPending, nrepl, pc, kind, held, waited,
                 panicked>>
  /\ UNCHANGED <<cancelled, pipeVars, svcVars, extVars>>

\* The server or the network drops a connection: its next command fails.
SessionDies(s) ==
  /\ Running
  /\ sess[s] = "live"
  /\ sess' = [sess EXCEPT ![s] = "dead"]
  /\ UNCHANGED <<conns, closed, fillPending, nrepl, closer, pc, kind, held,
                 waited, panicked>>
  /\ UNCHANGED <<cancelled, pipeVars, svcVars, extVars>>

\* SIGINT/SIGTERM cancels the context of signal.NotifyContext.
Cancel ==
  /\ Running
  /\ ~cancelled
  /\ cancelled' = TRUE
  /\ UNCHANGED <<poolVars, pipeVars, svcVars, extVars>>

PoolNext ==
  \/ \E i \in FillIds : FillOK(i)
  \/ \E i \in FillIds : FillFail(i)
  \/ \E c \in Callers, k \in {"single", "nested"} : StartOp(c, k)
  \/ \E c \in Callers : AcquireRecv(c)
  \/ \E c \in Callers : ReplaceOK(c)
  \/ \E c \in Callers : ReplaceFail(c)
  \/ \E c \in Callers : AcquireTimeout(c)
  \/ Tick
  \/ \E c \in Callers : NestedCall(c)
  \/ \E c \in Callers : Release(c)
  \/ CloseStart
  \/ CloseDrain
  \/ \E s \in SessIds : SessionDies(s)

\* ----------------------------------------------------- the accounts ----
\* The nil request that ends the stream.
NilReq == [uid |-> 0, mid |-> 0]

Min(S) == CHOOSE x \in S : \A y \in S : x <= y

\* UID SEARCH HEADER Message-Id on the target's All Mail.
SearchByMid(tgt, m) == {i \in 1..Len(tgt) : tgt[i].mid = m}

\* A FindUIDByMessageID that reports a message found only when the search
\* returns a single UID.
FindUIDUniqueOnly(tgt, m) ==
  IF Cardinality(SearchByMid(tgt, m)) = 1 THEN Min(SearchByMid(tgt, m)) ELSE 0
\* FindUIDByMessageID: 0 stands for the nil result, else uids[0].
FindUID(tgt, m) ==
  IF SearchByMid(tgt, m) = {} THEN 0 ELSE Min(SearchByMid(tgt, m))

\* slices.Sort on a sequence of UIDs.
RECURSIVE SortUIDs(_)
SortUIDs(q) ==
  IF Len(q) <= 1 THEN q
  ELSE LET m == Min({q[i] : i \in 1..Len(q)})
           k == Min({i \in 1..Len(q) : q[i] = m})
           rest == [i \in 1..(Len(q) - 1) |-> IF i < k THEN q[i] ELSE q[i + 1]]
       IN <<m>> \o SortUIDs(rest)

\* The orders in which the server may list the source's UIDs.
UIDOrders ==
  {q \in [1..NSrc -> SrcUIDs] : \A i, j \in 1..NSrc : i # j => q[i] # q[j]}

\* A truncation of the UIDs in the order the server gave them.
WorkingSetUnsorted(uids, maxCount) ==
  IF Len(uids) > maxCount THEN SubSeq(uids, 1, maxCount) ELSE uids
\* collectMessagesForMigration: sort, then truncate to maxEmailsToProcess.
WorkingSet(uids, maxCount) ==
  LET s == SortUIDs(uids)
  IN IF Len(s) > maxCount THEN SubSeq(s, 1, maxCount) ELSE s

\* slices.Chunk(allUIDs, size): the number of chunks and the k-th (from 0).
NumChunks(all, size) == (Len(all) + size - 1) \div size
\* A chunking that leaves out the first element of every chunk.
ChunkSkipsFirst(all, size, k) ==
  SubSeq(all, k * size + 2,
         IF (k + 1) * size < Len(all) THEN (k + 1) * size ELSE Len(all))
\* slices.Chunk(all, size): the k-th chunk, counted from 0.
Chunk(all, size, k) ==
  SubSeq(all, k * size + 1,
         IF (k + 1) * size < Len(all) THEN (k + 1) * size ELSE Len(all))

\* The messages a UID FETCH of ENVELOPE gives for a chunk, all present.
Fetched(uids) ==
  [i \in 1..Len(uids) |-> [uid |-> uids[i], mid |-> cfg.srcMid[uids[i]],
                           env |-> TRUE]]

\* q without its k-th element.
Without(q, k) == [i \in 1..(Len(q) - 1) |-> IF i < k THEN q[i] ELSE q[i + 1]]

\* backoff.Retry after a failed attempt: it gives up when the context is done
\* (or the maximum elapsed time is over), and otherwise sleeps and retries.
RetryIgnoringContext(ctxDone) == {"retry", "giveup"}
RetryDecision(ctxDone) == IF ctxDone THEN {"giveup"} ELSE {"retry", "giveup"}

\* migrateMailboxes: the names it hands to CreateMailboxes.
MissingMailboxNames(src, tgt) == {n \in tgt : n \notin src}

SrcBoxes == {"Projects/X", "Work"}

\* Message-ID assignments of the source, up to renaming of the ids.
SrcMids ==
  {f \in [SrcUIDs -> MsgIds] :
     \A u \in SrcUIDs : \A m \in 1..(f[u] - 1) : \E v \in 1..(u - 1) : f[v] = m}

PipeInit ==
  /\ cfg \in [srcMid : SrcMids, maxCount : 0..NSrc, dryRun : BOOLEAN,
              tgt0 : {<<>>, <<[mid |-> 1, flg |-> 0, lab |-> 0]>>}]
  /\ target = cfg.tgt0
  /\ tgtBoxes = {"Work", "Old", "Archive"}
  /\ pass = 1
  /\ runPc = "mailboxes"
  /\ runRes = "none"
  /\ done = 0
  /\ collPc = "idle"
  /\ allUIDs = <<>>
  /\ chunkNo = 0
  /\ batch = <<>>
  /\ collErrCh = <<>>
  /\ messagesCh = <<>>
  /\ chClosed = FALSE
  /\ wpc = [w \in Workers |-> "idle"]
  /\ wreq = [w \in Workers |-> NilReq]
  /\ migErrCh = <<>>
  /\ faults = 0
  /\ appends = [p \in 1..MaxPasses |-> 0]
  /\ updates = [p \in 1..MaxPasses |-> 0]
  /\ passEnd = [p \in 1..MaxPasses |-> [res |-> "none", len |-> 0]]

\* ------------------------------------------------------------ Run ----
\* Run returns r.
RunReturn(r) ==
  /\ runPc' = "returned"
  /\ runRes' = r
  /\ passEnd' = [passEnd EXCEPT ![pass] = [res |-> r, len |-> Len(target)]]

\* The orders in which a LIST may give the names of S.
NameOrders(S) ==
  {q \in [1..Cardinality(S) -> S] :
     \A i, j \in 1..Cardinality(S) : i # j => q[i] # q[j]}

\* The server's answer to CREATE name.
CreateReply(boxes, name) ==
  IF name \in boxes THEN "Duplicate folder name" ELSE "OK"

\* A CreateMailboxes that returns every error of c.Create.
CreateErrorNeverIgnored(e) == FALSE
\* CreateMailboxes: the error of c.Create that is not returned.
CreateErrorIgnored(e) == e = "Duplicate folder name"

\* One execution of CreateMailboxes' closure from names[i] on; the CREATE of
\* names[failAt] fails with another error (failAt = 0: none does).
RECURSIVE CreateAttempt(_, _, _, _)
CreateAttempt(names, boxes, i, failAt) ==
  IF i > Len(names) THEN [boxes |-> boxes, err |-> "nil"]
  ELSE IF i = failAt THEN [boxes |-> boxes, err |-> "create failed"]
  ELSE LET r == CreateReply(boxes, names[i]) IN
         IF r = "OK"
           THEN CreateAttempt(names, boxes \cup {names[i]}, i + 1, failAt)
           ELSE IF CreateErrorIgnored(r)
                  THEN CreateAttempt(names, boxes, i + 1, failAt)
                  ELSE [boxes |-> boxes, err |-> r]

\* Run: migrateMailboxes lists both accounts and calls CreateMailboxes; on
\* success the Collector and the workers are started. A failed CREATE makes
\* backoff.Retry run the whole list again, or give up.
RunMigrateMailboxes ==
  /\ runPc = "mailboxes"
  /\ \E names \in NameOrders(MissingMailboxNames(SrcBoxes, tgtBoxes)) :
     \E failAt \in 0..Len(names) :
     \E d \in IF failAt = 0 THEN {"none"} ELSE RetryDecision(cancelled) :
       LET first == CreateAttempt(names, tgtBoxes, 1, failAt)
           final == IF d = "retry"
                      THEN CreateAttempt(names, first.boxes, 1, 0)
                      ELSE first
       IN /\ failAt > 0 => faults < MaxFaults
          /\ faults' = IF failAt > 0 THEN faults + 1 ELSE faults
          /\ tgtBoxes' = final.boxes
          /\ IF final.err = "nil"
               THEN /\ runPc' = "select"
                    /\ collPc' = "findAll"
                    /\ wpc' = [w \in Workers |-> "recv"]
                    /\ UNCHANGED <<runRes, passEnd>>
               ELSE /\ RunReturn("mailboxes")
                    /\ UNCHANGED <<collPc, wpc>>
  /\ UNCHANGED <<cfg, target, pass, done, allUIDs, chunkNo, batch,
                 collErrCh, chanVars, wreq, migErrCh, appends, updates>>
  /\ UNCHANGED <<poolVars, cancelled, svcVars, extVars>>

\* Run: FetchMailboxNames of migrateMailboxes failed and its retries ended.
RunMailboxesFail ==
  /\ runPc = "mailboxes"
  /\ faults < MaxFaults
  /\ faults' = faults + 1
  /\ RunReturn("mailboxes")
  /\ UNCHANGED <<acctVars, pass, done, collVars, chanVars, workVars, appends,
                 updates>>
  /\ UNCHANGED <<poolVars, cancelled, svcVars, extVars>>

\* Run's select, case <-ctx.Done().
RunCtxDone ==
  /\ runPc = "select"
  /\ cancelled
  /\ RunReturn("ctx")
  /\ UNCHANGED <<acctVars, pass, done, collVars, chanVars, workVars, faults,
                 appends, updates>>
  /\ UNCHANGED <<poolVars, cancelled, svcVars, extVars>>

\* Run's select, case err := <-collectionErrorCh.
RunCollResult ==
  /\ runPc = "select"
  /\ collErrCh # <<>>
  /\ collErrCh' = Tail(collErrCh)
  /\ IF Head(collErrCh) # "nil"
       THEN RunReturn("collection")
       ELSE UNCHANGED <<runPc, runRes, passEnd>>
  /\ UNCHANGED <<acctVars, pass, done, collPc, allUIDs, chunkNo, batch,
                 chanVars, workVars, faults, appends, updates>>
  /\ UNCHANGED <<poolVars, cancelled, svcVars, extVars>>

\* A Run that reports success at the first worker that is done.
AnyWorkerDone(d) == d >= 1
\* Run: done == messageMigrationWorkers.
AllWorkersDone(d) == d = NWorkers

\* Run's select, case err := <-migrationErrorCh.
RunWorkerResult ==
  /\ runPc = "select"
  /\ migErrCh # <<>>
  /\ migErrCh' = Tail(migErrCh)
  /\ IF Head(migErrCh) # "nil"
       THEN /\ RunReturn("migration")
            /\ UNCHANGED done
       ELSE /\ done' = done + 1
            /\ IF AllWorkersDone(done + 1)
                 THEN RunReturn("nil")
                 ELSE UNCHANGED <<runPc, runRes, passEnd>>
  /\ UNCHANGED <<acctVars, pass, collVars, chanVars, wpc, wreq, faults,
                 appends, updates>>
  /\ UNCHANGED <<poolVars, cancelled, svcVars, extVars>>

\* The process ends after Run reported success and the job is started again
\* on the same accounts: a new job, a new context.
NextPass ==
  /\ runPc = "returned"
  /\ runRes = "nil"
  /\ pass < MaxPasses
  /\ pass' = pass + 1
  /\ runPc' = "mailboxes"
  /\ runRes' = "none"
  /\ done' = 0
  /\ collPc' = "idle"
  /\ allUIDs' = <<>>
  /\ chunkNo' = 0
  /\ batch' = <<>>
  /\ collErrCh' = <<>>
  /\ messagesCh' = <<>>
  /\ chClosed' = FALSE
  /\ wpc' = [w \in Workers |-> "idle"]
  /\ wreq' = [w \in Workers |-> NilReq]
  /\ migErrCh' = <<>>
  /\ cancelled' = FALSE
  /\ UNCHANGED <<acctVars, histVars>>
  /\ UNCHANGED <<poolVars, svcVars, extVars>>

\* ------------------------------------------------------ Collector ----
\* collectMessagesForMigration returns e, and the goroutine of Run sends it
\* on collectionErrorCh.
CollReturn(e) ==
  /\ Len(collErrCh) < 1
  /\ collErrCh' = Append(collErrCh, e)
  /\ collPc' = IF e = "nil" THEN "done" ELSE "failed"

\* A Collector that sends the sentinel right after any chunk.
AfterChunkSentinel(k) == "sentinel"
\* Where the Collector goes once the chunk k is enqueued.
AfterChunk(k) ==
  IF k + 1 < NumChunks(allUIDs, BatchSize) THEN "fetch" ELSE "sentinel"

\* FindAllUIDs, slices.Sort and the truncation to maxEmailsToProcess.
CollFindAllOK ==
  /\ collPc = "findAll"
  /\ \E q \in UIDOrders :
       /\ allUIDs' = WorkingSet(q, cfg.maxCount)
       /\ collPc' = IF NumChunks(allUIDs', BatchSize) = 0
                      THEN "sentinel" ELSE "fetch"
  /\ chunkNo' = 0
  /\ UNCHANGED <<acctVars, runVars, batch, collErrCh, chanVars, workVars,
                 histVars>>
  /\ UNCHANGED <<poolVars, cancelled, svcVars, extVars>>

\* A failed attempt of FindAllUIDs or FetchByUIDs, and what backoff.Retry
\* does next.
CollFail ==
  /\ collPc \in {"findAll", "fetch"}
  /\ faults < MaxFaults
  /\ faults' = faults + 1
  /\ \E d \in RetryDecision(cancelled) :
       IF d = "retry"
         THEN UNCHANGED <<collPc, collErrCh>>
         ELSE CollReturn("err")
  /\ UNCHANGED <<acctVars, runVars, allUIDs, chunkNo, batch, chanVars,
                 workVars, appends, updates, passEnd>>
  /\ UNCHANGED <<poolVars, cancelled, svcVars, extVars>>

\* FetchByUIDs of the chunk chunkNo: every message the server sent.
CollFetchOK ==
  /\ collPc = "fetch"
  /\ batch' = Fetched(Chunk(allUIDs, BatchSize, chunkNo))
  /\ collPc' = "send"
  /\ UNCHANGED <<acctVars, runVars, allUIDs, chunkNo, collErrCh, chanVars,
                 workVars, histVars>>
  /\ UNCHANGED <<poolVars, cancelled, svcVars, extVars>>

\* FetchByUIDs returns without error, but the server's answer lacks the
\* message of one requested UID (it is gone since the search).
CollFetchShort ==
  /\ collPc = "fetch"
  /\ faults < MaxFaults
  /\ faults' = faults + 1
  /\ LET all == Fetched(Chunk(allUIDs, BatchSize, chunkNo)) IN
       \E k \in 1..Len(all) :
         /\ batch' = Without(all, k)
         /\ collPc' = IF batch' = <<>> THEN AfterChunk(chunkNo) ELSE "send"
         /\ chunkNo' = IF batch' = <<>> THEN chunkNo + 1 ELSE chunkNo
  /\ UNCHANGED <<acctVars, runVars, allUIDs, collErrCh, chanVars, workVars,
                 appends, updates, passEnd>>
  /\ UNCHANGED <<poolVars, cancelled, svcVars, extVars>>

\* FetchByUIDs returns a message without its envelope.
CollFetchNoEnvelope ==
  /\ collPc = "fetch"
  /\ faults < MaxFaults
  /\ faults' = faults + 1
  /\ LET all == Fetched(Chunk(allUIDs, BatchSize, chunkNo)) IN
       \E k \in 1..Len(all) :
         batch' = [all EXCEPT ![k].env = FALSE]
  /\ collPc' = "send"
  /\ UNCHANGED <<acctVars, runVars, allUIDs, chunkNo, collErrCh, chanVars,
                 workVars, appends, updates, passEnd>>
  /\ UNCHANGED <<poolVars, cancelled, svcVars, extVars>>

\* A loop that enqueues a message whatever its envelope.
EnvelopeNotChecked(msg) == TRUE
\* The loop over the fetched messages: msg.Envelope != nil.
HasEnvelope(msg) == msg.env

\* A channel whose send never blocks.
QueueAlwaysHasRoom(q) == TRUE
\* j.messagesCh <- ... on make(chan *migrationRequest,
\* messageMigrationConcurrency): the send proceeds while the buffer has room.
QueueHasRoom(q) == Len(q) < QueueCap

\* The loop over the fetched messages: j.messagesCh <- &migrationRequest{...}.
CollSend ==
  /\ collPc = "send"
  /\ batch # <<>>
  /\ HasEnvelope(Head(batch))
  /\ ~chClosed
  /\ QueueHasRoom(messagesCh)
  /\ messagesCh' = Append(messagesCh,
                          [uid |-> Head(batch).uid, mid |-> Head(batch).mid])
  /\ batch' = Tail(batch)
  /\ collPc' = IF Tail(batch) = <<>> THEN AfterChunk(chunkNo) ELSE "send"
  /\ chunkNo' = IF Tail(batch) = <<>> THEN chunkNo + 1 ELSE chunkNo
  /\ UNCHANGED <<acctVars, runVars, allUIDs, collErrCh, chClosed, workVars,
                 histVars>>
  /\ UNCHANGED <<poolVars, cancelled, svcVars, extVars>>

\* The loop over the fetched messages: msg.Envelope == nil.
CollNoEnvelope ==
  /\ collPc = "send"
  /\ batch # <<>>
  /\ ~HasEnvelope(Head(batch))
  /\ CollReturn("err")
  /\ UNCHANGED <<acctVars, runVars, allUIDs, chunkNo, batch, chanVars,
                 workVars, histVars>>
  /\ UNCHANGED <<poolVars, cancelled, svcVars, extVars>>

\* j.messagesCh <- nil
CollSentinel ==
  /\ collPc = "sentinel"
  /\ QueueHasRoom(messagesCh)
  /\ messagesCh' = Append(messagesCh, NilReq)
  /\ collPc' = "close"
  /\ UNCHANGED <<acctVars, runVars, allUIDs, chunkNo, batch, collErrCh,
                 chClosed, workVars, histVars>>
  /\ UNCHANGED <<poolVars, cancelled, svcVars, extVars>>

\* close(j.messagesCh)
CollClose ==
  /\ collPc = "close"
  /\ chClosed' = TRUE
  /\ collPc' = "return"
  /\ UNCHANGED <<acctVars, runVars, allUIDs, chunkNo, batch, collErrCh,
                 messagesCh, workVars, histVars>>
  /\ UNCHANGED <<poolVars, cancelled, svcVars, extVars>>

\* return nil
CollReturnNil ==
  /\ collPc = "return"
  /\ CollReturn("nil")
  /\ UNCHANGED <<acctVars, runVars, allUIDs, chunkNo, batch, chanVars,
                 workVars, histVars>>
  /\ UNCHANGED <<poolVars, cancelled, svcVars, extVars>>

\* ----------------------------------------------- Migration Workers ----
\* A result channel with one slot fewer than there are workers.
MigErrChCapShort == NWorkers - 1
\* migrationErrorCh := make(chan error, messageMigrationWorkers)
MigErrChCap == NWorkers

\* migrateMessages returns e, and the goroutine of Run sends it on
\* migrationErrorCh.
WReturn(w, e) ==
  /\ Len(migErrCh) < MigErrChCap
  /\ migErrCh' = Append(migErrCh, e)
  /\ wpc' = [wpc EXCEPT ![w] = IF e = "nil" THEN "done" ELSE "failed"]
  /\ wreq' = [wreq EXCEPT ![w] = NilReq]

\* The request is migrated: back to the select of migrateMessages.
WNext(w) ==
  /\ wpc' = [wpc EXCEPT ![w] = "recv"]
  /\ wreq' = [wreq EXCEPT ![w] = NilReq]

\* migrateMessages' select, case <-ctx.Done().
WCtxDone(w) ==
  /\ wpc[w] = "recv"
  /\ cancelled
  /\ WReturn(w, "ctx")
  /\ UNCHANGED <<acctVars, runVars, collVars, chanVars, histVars>>
  /\ UNCHANGED <<poolVars, cancelled, svcVars, extVars>>

\* A receive that leaves the value in the channel.
ReceivedPeek(q) == q
\* r, more := <-j.messagesCh: the value received leaves the channel.
Received(q) == Tail(q)

\* A receive that blocks on an empty channel also after close.
RecvFromEmptyBlocks(isClosed) == FALSE
\* r, more := <-j.messagesCh on an empty channel: it proceeds, with more =
\* false, once close(j.messagesCh) has run.
RecvFromEmpty(isClosed) == isClosed

\* migrateMessages' select, case r, more := <-j.messagesCh.
WRecv(w) ==
  /\ wpc[w] = "recv"
  /\ IF messagesCh # <<>>
       THEN /\ messagesCh' = Received(messagesCh)
            /\ IF Head(messagesCh) = NilReq
                 THEN WReturn(w, "nil")
                 ELSE /\ wreq' = [wreq EXCEPT ![w] = Head(messagesCh)]
                      /\ wpc' = [wpc EXCEPT ![w] = "search"]
                      /\ UNCHANGED migErrCh
       ELSE /\ RecvFromEmpty(chClosed)
            /\ WReturn(w, "nil")
            /\ UNCHANGED messagesCh
  /\ UNCHANGED <<acctVars, runVars, collVars, chClosed, histVars>>
  /\ UNCHANGED <<poolVars, cancelled, svcVars, extVars>>

\* A migrateMessage that appends whatever the search found.
PathAlwaysAppend(uid) == "fetchA"
\* migrateMessage: uid == nil takes the append path, a UID the update path.
PathFor(uid) == IF uid = 0 THEN "fetchA" ELSE "fetchU"

\* migrateMessage: FindUIDByMessageID on the target decides the path.
WSearchOK(w) ==
  /\ wpc[w] = "search"
  /\ LET path == PathFor(FindUID(target, wreq[w].mid)) IN
       /\ wpc' = [wpc EXCEPT ![w] = path]
       /\ updates' = [updates EXCEPT ![pass] =
                        IF path = "fetchU" THEN @ + 1 ELSE @]
  /\ UNCHANGED <<acctVars, runVars, collVars, chanVars, wreq, migErrCh,
                 faults, appends, passEnd>>
  /\ UNCHANGED <<poolVars, cancelled, svcVars, extVars>>

\* The items FetchMessageByUID asks the source for, on the append path and on
\* the update path.
FetchItems(path) ==
  IF path = "fetchA"
    THEN {"ENVELOPE", "FLAGS", "INTERNALDATE", "RFC822", "X-GM-LABELS"}
    ELSE {"FLAGS", "INTERNALDATE", "ENVELOPE", "X-GM-LABELS"}

\* A label STORE that replaces the flags as well.
StoreLabelsAndFlags(tgt, i, v) == [tgt EXCEPT ![i].lab = v, ![i].flg = v]
\* c.UidStore(seqSet, GmailLabelsExt+".SILENT", labels, nil) on the UID i.
StoreLabels(tgt, i, v) == [tgt EXCEPT ![i].lab = v]

\* A job that writes to the target whatever j.dryRun says.
NeverSkipsTargetWrite(dryRun) == FALSE
\* if j.dryRun { slog.Info(...) } else if ... AppendMessage / UpdateMessage.
SkipsTargetWrite(dryRun) == dryRun

\* appendNewMessageToTargetAccount: FetchMessageByUID on the source, then the
\* dry-run branch.
WFetchForAppendOK(w) ==
  /\ wpc[w] = "fetchA"
  /\ IF SkipsTargetWrite(cfg.dryRun)
       THEN WNext(w)
       ELSE /\ wpc' = [wpc EXCEPT ![w] = "append"]
            /\ UNCHANGED wreq
  /\ UNCHANGED <<acctVars, runVars, collVars, chanVars, migErrCh, histVars>>
  /\ UNCHANGED <<poolVars, cancelled, svcVars, extVars>>

\* AppendMessage: c.Append(GmailAllMailLabel, msg.Flags, msg.InternalDate, r).
WAppendOK(w) ==
  /\ wpc[w] = "append"
  /\ "RFC822" \in FetchItems("fetchA")
  /\ target' = Append(target, [mid |-> cfg.srcMid[wreq[w].uid],
                               flg |-> wreq[w].uid, lab |-> 0])
  /\ appends' = [appends EXCEPT ![pass] = @ + 1]
  /\ wpc' = [wpc EXCEPT ![w] = "afind"]
  /\ UNCHANGED <<cfg, tgtBoxes, runVars, collVars, chanVars, wreq, migErrCh,
                 faults, updates, passEnd>>
  /\ UNCHANGED <<poolVars, cancelled, svcVars, extVars>>

\* AppendMessage: the nested FindUIDByMessageID found the appended message.
WAppendFindOK(w) ==
  /\ wpc[w] = "afind"
  /\ FindUID(target, wreq[w].mid) # 0
  /\ wpc' = [wpc EXCEPT ![w] = "astore"]
  /\ UNCHANGED <<acctVars, runVars, collVars, chanVars, wreq, migErrCh,
                 histVars>>
  /\ UNCHANGED <<poolVars, cancelled, svcVars, extVars>>

\* AppendMessage: c.UidStore of the labels on the UID found, and return.
WAppendStoreOK(w) ==
  /\ wpc[w] = "astore"
  /\ target' = StoreLabels(target, FindUID(target, wreq[w].mid), wreq[w].uid)
  /\ WNext(w)
  /\ UNCHANGED <<cfg, tgtBoxes, runVars, collVars, chanVars, migErrCh,
                 histVars>>
  /\ UNCHANGED <<poolVars, cancelled, svcVars, extVars>>

\* updateExistingMessageInTargetAccount: FetchMessageByUID on the source, then
\* the dry-run branch.
WFetchForUpdateOK(w) ==
  /\ wpc[w] = "fetchU"
  /\ IF SkipsTargetWrite(cfg.dryRun)
       THEN WNext(w)
       ELSE /\ wpc' = [wpc EXCEPT ![w] = "ufind"]
            /\ UNCHANGED wreq
  /\ UNCHANGED <<acctVars, runVars, collVars, chanVars, migErrCh, histVars>>
  /\ UNCHANGED <<poolVars, cancelled, svcVars, extVars>>

\* UpdateMessage: the nested FindUIDByMessageID found the message.
WUpdateFindOK(w) ==
  /\ wpc[w] = "ufind"
  /\ FindUID(target, wreq[w].mid) # 0
  /\ wpc' = [wpc EXCEPT ![w] = "ulabels"]
  /\ UNCHANGED <<acctVars, runVars, collVars, chanVars, wreq, migErrCh,
                 histVars>>
  /\ UNCHANGED <<poolVars, cancelled, svcVars, extVars>>

\* UpdateMessage: c.UidStore of the labels.
WUpdateLabelsOK(w) ==
  /\ wpc[w] = "ulabels"
  /\ target' = StoreLabels(target, FindUID(target, wreq[w].mid), wreq[w].uid)
  /\ wpc' = [wpc EXCEPT ![w] = "uflags"]
  /\ UNCHANGED <<cfg, tgtBoxes, runVars, collVars, chanVars, wreq, migErrCh,
                 histVars>>
  /\ UNCHANGED <<poolVars, cancelled, svcVars, extVars>>

\* UpdateMessage: c.UidStore of the flags, and return.
WUpdateFlagsOK(w) ==
  /\ wpc[w] = "uflags"
  /\ target' = [target EXCEPT ![FindUID(target, wreq[w].mid)].flg =
                                 wreq[w].uid]
  /\ WNext(w)
  /\ UNCHANGED <<cfg, tgtBoxes, runVars, collVars, chanVars, migErrCh,
                 histVars>>
  /\ UNCHANGED <<poolVars, cancelled, svcVars, extVars>>

\* Where a worker resumes when a retry wrapper around the failed command
\* runs its operation again: FindUIDByMessageID and FetchMessageByUID are one
\* command; AppendMessage and UpdateMessage start over, and their nested
\* FindUIDByMessageID has a wrapper of its own.
RetryTargets(p) ==
  CASE p = "search"  -> {"search"}
    [] p = "fetchA"  -> {"fetchA"}
    [] p = "fetchU"  -> {"fetchU"}
    [] p = "append"  -> {"append"}
    [] p = "afind"   -> {"afind", "append"}
    [] p = "astore"  -> {"append"}
    [] p = "ufind"   -> {"ufind"}
    [] p = "ulabels" -> {"ufind"}
    [] p = "uflags"  -> {"ufind"}

\* A remote command of the worker fails: the wrapper retries, or gives up and
\* migrateMessage, then migrateMessages, return the error.
WFail(w) ==
  /\ wpc[w] \in {"search", "fetchA", "fetchU", "append", "afind", "astore",
                 "ufind", "ulabels", "uflags"}
  /\ faults < MaxFaults
  /\ faults' = faults + 1
  /\ \E d \in RetryDecision(cancelled) :
       IF d = "retry"
         THEN /\ \E p \in RetryTargets(wpc[w]) :
                   wpc' = [wpc EXCEPT ![w] = p]
              /\ UNCHANGED <<wreq, migErrCh>>
         ELSE WReturn(w, "err")
  /\ UNCHANGED <<acctVars, runVars, collVars, chanVars, appends, updates,
                 passEnd>>
  /\ UNCHANGED <<poolVars, cancelled, svcVars, extVars>>

PipeNext ==
  \/ RunMigrateMailboxes
  \/ RunMailboxesFail
  \/ RunCtxDone
  \/ RunCollResult
  \/ RunWorkerResult
  \/ CollFindAllOK
  \/ CollFail
  \/ CollFetchOK
  \/ CollFetchShort
  \/ CollFetchNoEnvelope
  \/ CollSend
  \/ CollNoEnvelope
  \/ CollSentinel
  \/ CollClose
  \/ CollReturnNil
  \/ \E w \in Workers : WCtxDone(w)
  \/ \E w \in Workers : WRecv(w)
  \/ \E w \in Workers : WSearchOK(w)
  \/ \E w \in Workers : WFetchForAppendOK(w)
  \/ \E w \in Workers : WAppendOK(w)
  \/ \E w \in Workers : WAppendFindOK(w)
  \/ \E w \in Workers : WAppendStoreOK(w)
  \/ \E w \in Workers : WFetchForUpdateOK(w)
  \/ \E w \in Workers : WUpdateFindOK(w)
  \/ \E w \in Workers : WUpdateLabelsOK(w)
  \/ \E w \in Workers : WUpdateFlagsOK(w)
  \/ \E w \in Workers : WFail(w)

\* --------------------------------------------------- specifications ----
\* The pool alone: the job's variables stay as constructed.
\* ------------------------------------------ The push worker's handler ----
\* The http.Server runs HandleRequest in a goroutine per request; the push
\* subscription delivers the message of one migration request at least once:
\* again after a response that is not a success, and possibly again after a
\* success or while an earlier delivery is still being handled.

\* The request the subscription delivers: the source's message of UID 1.
HReq == [uid |-> 1, mid |-> cfg.srcMid[1]]

\* FindUIDByMessageID of the Gmail the handler uses: nil for no UID, the UID
\* for one, an error for several.
FindUIDStrict(tgt, m) ==
  LET S == SearchByMid(tgt, m) IN
    IF S = {} THEN [uid |-> 0, err |-> FALSE]
    ELSE IF Cardinality(S) = 1 THEN [uid |-> Min(S), err |-> FALSE]
    ELSE [uid |-> 0, err |-> TRUE]

\* HandleRequest responds (with http.Error or with 200) and returns.
HRespond(h) == hpc' = [hpc EXCEPT ![h] = "idle"]

HGoto(h, p) == hpc' = [hpc EXCEPT ![h] = p]

\* The subscription posts the message and the server starts HandleRequest.
Deliver(h) ==
  /\ hpc[h] = "idle"
  /\ delivered < MaxDeliveries
  /\ delivered' = delivered + 1
  /\ HGoto(h, "search")
  /\ UNCHANGED <<poolVars, cancelled, pipeVars, schedVars, extVars>>

\* HandleRequest: FindUIDByMessageID on the target decides the path.
HSearch(h) ==
  /\ hpc[h] = "search"
  /\ LET r == FindUIDStrict(target, HReq.mid) IN
       IF r.err THEN HRespond(h)
       ELSE IF r.uid = 0 THEN HGoto(h, "fetchA")
       ELSE HGoto(h, "fetchU")
  /\ UNCHANGED <<poolVars, cancelled, pipeVars, delivered, schedVars, extVars>>

\* appendNewMessageToTargetAccount: FetchMessageByUID, then the dry-run branch.
HFetchForAppend(h) ==
  /\ hpc[h] = "fetchA"
  /\ IF SkipsTargetWrite(cfg.dryRun) THEN HRespond(h) ELSE HGoto(h, "append")
  /\ UNCHANGED <<poolVars, cancelled, pipeVars, delivered, schedVars, extVars>>

\* AppendMessage: c.Append.
HAppend(h) ==
  /\ hpc[h] = "append"
  /\ target' = Append(target, [mid |-> HReq.mid, flg |-> HReq.uid, lab |-> 0])
  /\ HGoto(h, "afind")
  /\ UNCHANGED <<cfg, tgtBoxes, runVars, collVars, chanVars, workVars,
                 histVars>>
  /\ UNCHANGED <<poolVars, cancelled, delivered, schedVars, extVars>>

\* AppendMessage: FindUIDByMessageID of the message appended.
HAppendFind(h) ==
  /\ hpc[h] = "afind"
  /\ LET r == FindUIDStrict(target, HReq.mid) IN
       IF r.err \/ r.uid = 0 THEN HRespond(h) ELSE HGoto(h, "astore")
  /\ UNCHANGED <<poolVars, cancelled, pipeVars, delivered, schedVars, extVars>>

\* AppendMessage: c.UidStore of the labels on the UID found.
HAppendStore(h) ==
  /\ hpc[h] = "astore"
  /\ target' = [target EXCEPT ![Min(SearchByMid(target, HReq.mid))].lab =
                                 HReq.uid]
  /\ HRespond(h)
  /\ UNCHANGED <<cfg, tgtBoxes, runVars, collVars, chanVars, workVars,
                 histVars>>
  /\ UNCHANGED <<poolVars, cancelled, delivered, schedVars, extVars>>

\* updateExistingMessageInTargetAccount: FetchMessageByUID, then the dry-run
\* branch.
HFetchForUpdate(h) ==
  /\ hpc[h] = "fetchU"
  /\ IF SkipsTargetWrite(cfg.dryRun) THEN HRespond(h) ELSE HGoto(h, "ufind")
  /\ UNCHANGED <<poolVars, cancelled, pipeVars, delivered, schedVars, extVars>>

\* UpdateMessage: FindUIDByMessageID.
HUpdateFind(h) ==
  /\ hpc[h] = "ufind"
  /\ LET r == FindUIDStrict(target, HReq.mid) IN
       IF r.err \/ r.uid = 0 THEN HRespond(h) ELSE HGoto(h, "ulabels")
  /\ UNCHANGED <<poolVars, cancelled, pipeVars, delivered, schedVars, extVars>>

\* UpdateMessage: c.UidStore of the labels.
HUpdateLabels(h) ==
  /\ hpc[h] = "ulabels"
  /\ target' = [target EXCEPT ![Min(SearchByMid(target, HReq.mid))].lab =
                                 HReq.uid]
  /\ HGoto(h, "uflags")
  /\ UNCHANGED <<cfg, tgtBoxes, runVars, collVars, chanVars, workVars,
                 histVars>>
  /\ UNCHANGED <<poolVars, cancelled, delivered, schedVars, extVars>>

\* UpdateMessage: c.UidStore of the flags.
HUpdateFlags(h) ==
  /\ hpc[h] = "uflags"
  /\ target' = [target EXCEPT ![Min(SearchByMid(target, HReq.mid))].flg =
                                 HReq.uid]
  /\ HRespond(h)
  /\ UNCHANGED <<cfg, tgtBoxes, runVars, collVars, chanVars, workVars,
                 histVars>>
  /\ UNCHANGED <<poolVars, cancelled, delivered, schedVars, extVars>>

\* A remote command of the handler fails: the error goes up to HandleRequest,
\* which responds with http.StatusInternalServerError.
HFail(h) ==
  /\ hpc[h] # "idle"
  /\ faults < MaxFaults
  /\ faults' = faults + 1
  /\ HRespond(h)
  /\ UNCHANGED <<acctVars, runVars, collVars, chanVars, workVars, appends,
                 updates, passEnd>>
  /\ UNCHANGED <<poolVars, cancelled, delivered, schedVars, extVars>>

HandlerNext ==
  \/ \E h \in Handlers : Deliver(h)
  \/ \E h \in Handlers : HSearch(h)
  \/ \E h \in Handlers : HFetchForAppend(h)
  \/ \E h \in Handlers : HAppend(h)
  \/ \E h \in Handlers : HAppendFind(h)
  \/ \E h \in Handlers : HAppendStore(h)
  \/ \E h \in Handlers : HFetchForUpdate(h)
  \/ \E h \in Handlers : HUpdateFind(h)
  \/ \E h \in Handlers : HUpdateLabels(h)
  \/ \E h \in Handlers : HUpdateFlags(h)
  \/ \E h \in Handlers : HFail(h)

\* -------------------------------------------------- The scheduler job ----
SchedBoxes == {"INBOX", "Work"}
SchedIds == 1..NIds

\* What the two accounts hold when runJob lists them: for every mailbox of the
\* source the identifiers of its messages, whether the target has a mailbox
\* of that name, and the identifiers of the target mailbox's messages.
SchedInputs ==
  {f \in [SchedBoxes -> [src : SUBSET SchedIds, tgt : SUBSET SchedIds,
                         inTgt : BOOLEAN]] :
     \A m \in SchedBoxes : ~f[m].inTgt => f[m].tgt = {}}

\* runJob: messageIDsToSync.  With the mailbox in the target, the keys of the
\* source are deleted from the target's map and the keys left are collected;
\* otherwise the keys of the source are collected.
MessageIDsToSync(src, tgt, existsInTarget) ==
  IF existsInTarget THEN tgt \ src ELSE src

\* slices.Chunk(messageIDsToSync, 50_000) as the documents of one mailbox.
ChunkDocs(name, ids) ==
  [i \in 1..NumChunks(ids, ChunkSize) |->
     [mailboxName |-> name, messageIDs |-> Chunk(ids, ChunkSize, i - 1)]]

\* One iteration of the loop over the mailboxes map (in Go's arbitrary map
\* order): the UIDs are fetched and every chunk document is written.
SchedMailbox ==
  /\ schedPc = "loop"
  /\ \E m \in schedTodo :
     \E ids \in NameOrders(MessageIDsToSync(schedIn[m].src, schedIn[m].tgt,
                                            schedIn[m].inTgt)) :
       /\ ledger' = ledger \o ChunkDocs(m, ids)
       /\ schedTodo' = schedTodo \ {m}
  /\ UNCHANGED <<schedIn, schedPc>>
  /\ UNCHANGED <<poolVars, cancelled, pipeVars, delivered, hpc, extVars>>

\* FetchAllMessageUids fails, or the Set of a chunk document fails after some
\* documents of the mailbox were written: return 1.
SchedMailboxFail ==
  /\ schedPc = "loop"
  /\ \E m \in schedTodo :
     \E ids \in NameOrders(MessageIDsToSync(schedIn[m].src, schedIn[m].tgt,
                                            schedIn[m].inTgt)) :
     \E k \in 0..NumChunks(ids, ChunkSize) :
       /\ k < NumChunks(ids, ChunkSize) \/ k = 0
       /\ ledger' = ledger \o SubSeq(ChunkDocs(m, ids), 1, k)
  /\ schedPc' = "failed"
  /\ UNCHANGED <<schedIn, schedTodo>>
  /\ UNCHANGED <<poolVars, cancelled, pipeVars, delivered, hpc, extVars>>

\* After the loop: return 0 when chunkIndex == 0, else runClient.RunJob.
SchedRunJob ==
  /\ schedPc = "loop"
  /\ schedTodo = {}
  /\ \E r \in IF ledger = <<>> THEN {"done"} ELSE {"done", "failed"} :
       /\ schedPc' = r
       /\ IF r = "done" /\ ledger # <<>>
            THEN /\ taskCount' = Len(ledger)
                 /\ taskRes' = [i \in 0..(Len(ledger) - 1) |-> "none"]
            ELSE UNCHANGED taskVars
  /\ UNCHANGED <<schedIn, schedTodo, ledger, caseVars>>
  /\ UNCHANGED <<poolVars, cancelled, pipeVars, delivered, hpc>>

\* The field names under which the worker task looks up its chunk data.
WorkerMailboxField == "mailBoxName"
WorkerIDsField == "messageIDs"

\* The worker's extraction of the chunk data from the document it read.
ReadChunk(doc) ==
  IF WorkerMailboxField \notin DOMAIN doc THEN "missing mailbox name"
  ELSE IF WorkerIDsField \notin DOMAIN doc THEN "missing message IDs"
  ELSE "accepted"

\* The worker task with CLOUD_RUN_TASK_INDEX i: it reads the document
\* syncJobs/<job>/chunks/<i> and extracts the chunk data.
WorkerTask(i) ==
  /\ schedPc = "done"
  /\ i \in DOMAIN taskRes
  /\ taskRes[i] = "none"
  /\ taskRes' = [taskRes EXCEPT ![i] =
                   IF i + 1 \in DOMAIN ledger
                     THEN ReadChunk(ledger[i + 1])
                     ELSE "no document"]
  /\ UNCHANGED <<taskCount, caseVars>>
  /\ UNCHANGED <<poolVars, cancelled, pipeVars, svcVars>>

\* The worker task fails before it reads its document: a Dial or the
\* Firestore Get returns an error.
WorkerTaskFail(i) ==
  /\ schedPc = "done"
  /\ i \in DOMAIN taskRes
  /\ taskRes[i] = "none"
  /\ taskRes' = [taskRes EXCEPT ![i] = "connect failed"]
  /\ UNCHANGED <<taskCount, caseVars>>
  /\ UNCHANGED <<poolVars, cancelled, pipeVars, svcVars>>

SchedNext ==
  \/ SchedMailbox
  \/ SchedMailboxFail
  \/ SchedRunJob
  \/ \E i \in DOMAIN taskRes : WorkerTask(i)
  \/ \E i \in DOMAIN taskRes : WorkerTaskFail(i)

\* The scheduler and the push worker are not running.
\* ------------------------------------------------ The case conversion ----
\* Strings are sequences over one lower-case letter, one upper-case letter,
\* one digit and the underscore.
Chars == {"a", "A", "0", "_"}
IsUpper(c) == c = "A"
IsLower(c) == c = "a"
IsDigit(c) == c = "0"

RECURSIVE StringsUpTo(_)
StringsUpTo(n) ==
  IF n = 0 THEN {<<>>}
  ELSE StringsUpTo(n - 1) \cup [1..n -> Chars]

\* The end of the longest run of lower-case letters that starts at s[k].
RECURSIVE LowerRunEnd(_, _)
LowerRunEnd(s, k) ==
  IF k + 1 <= Len(s) /\ IsLower(s[k + 1]) THEN LowerRunEnd(s, k + 1) ELSE k

\* matchFirstCap.ReplaceAllString(s, "${1}_${2}") with
\* matchFirstCap = "(.)([A-Z][a-z]+)": the leftmost matches, one after the
\* other, from s[i] on.
RECURSIVE ReplaceFirstCap(_, _)
ReplaceFirstCap(s, i) ==
  IF i > Len(s) THEN <<>>
  ELSE IF i + 2 <= Len(s) /\ IsUpper(s[i + 1]) /\ IsLower(s[i + 2])
    THEN LET j == LowerRunEnd(s, i + 2) IN
           <<s[i], "_">> \o SubSeq(s, i + 1, j) \o ReplaceFirstCap(s, j + 1)
    ELSE <<s[i]>> \o ReplaceFirstCap(s, i + 1)

\* matchAllCap.ReplaceAllString(s, "${1}_${2}") with
\* matchAllCap = "([a-z0-9])([A-Z])".
RECURSIVE ReplaceAllCap(_, _)
ReplaceAllCap(s, i) ==
  IF i > Len(s) THEN <<>>
  ELSE IF i + 1 <= Len(s) /\ (IsLower(s[i]) \/ IsDigit(s[i]))
            /\ IsUpper(s[i + 1])
    THEN <<s[i], "_", s[i + 1]>> \o ReplaceAllCap(s, i + 2)
    ELSE <<s[i]>> \o ReplaceAllCap(s, i + 1)

\* strings.ToUpper
ToUpper(s) == [i \in 1..Len(s) |-> IF IsLower(s[i]) THEN "A" ELSE s[i]]

CamelCaseToUpperSnakeCase(s) ==
  ToUpper(ReplaceAllCap(ReplaceFirstCap(s, 1), 1))

\* The call.
CaseCall ==
  /\ casePc = "call"
  /\ caseOut' = CamelCaseToUpperSnakeCase(caseIn)
  /\ casePc' = "done"
  /\ UNCHANGED <<caseIn, taskVars>>
  /\ UNCHANGED <<poolVars, cancelled, pipeVars, svcVars>>

\* No worker task runs and no string is converted.
ExtIdle ==
  /\ taskCount = 0
  /\ taskRes = <<>>
  /\ casePc = "idle"
  /\ caseIn = <<>>
  /\ caseOut = <<>>

SvcIdle ==
  /\ ExtIdle
  /\ delivered = 0
  /\ hpc = [h \in Handlers |-> "idle"]
  /\ schedIn = <<>>
  /\ schedPc = "idle"
  /\ schedTodo = {}
  /\ ledger = <<>>

InitPool == PoolInit /\ cancelled = FALSE /\ PipeInit /\ cfg.maxCount = 0
            /\ SvcIdle
            /\ ~cfg.dryRun /\ cfg.tgt0 = <<>>
            /\ \A u \in SrcUIDs : cfg.srcMid[u] = u

NextPool == PoolNext \/ Cancel

SpecPool == InitPool /\ [][NextPool]_vars

\* The job: the pools stay as constructed.
Init == PoolInit /\ cancelled = FALSE /\ PipeInit /\ SvcIdle

Next == PipeNext \/ NextPass \/ Cancel

Spec == Init /\ [][Next]_vars

\* The job under the Go scheduler: a goroutine that can take a step takes it.
\* The steps are the ones in which the remote command succeeds; nothing makes
\* a command fail, the context be cancelled or a further pass start.
RunStep == RunMigrateMailboxes \/ RunCollResult \/ RunWorkerResult

CollStep ==
  \/ CollFindAllOK
  \/ CollFetchOK
  \/ CollSend
  \/ CollSentinel
  \/ CollClose
  \/ CollReturnNil

WorkerStep(w) ==
  \/ WRecv(w)
  \/ WSearchOK(w)
  \/ WFetchForAppendOK(w)
  \/ WAppendOK(w)
  \/ WAppendFindOK(w)
  \/ WAppendStoreOK(w)
  \/ WFetchForUpdateOK(w)
  \/ WUpdateFindOK(w)
  \/ WUpdateLabelsOK(w)
  \/ WUpdateFlagsOK(w)

Fairness ==
  /\ WF_vars(RunStep)
  /\ WF_vars(CollStep)
  /\ \A w \in Workers : WF_vars(WorkerStep(w))

SpecFair == Init /\ [][Next]_vars /\ Fairness

\* The push worker serving deliveries of one request; no job runs.
InitHandler ==
  /\ PoolInit /\ cancelled = FALSE /\ PipeInit /\ ExtIdle
  /\ delivered = 0
  /\ hpc = [h \in Handlers |-> "idle"]
  /\ schedIn = <<>> /\ schedPc = "idle" /\ schedTodo = {} /\ ledger = <<>>

SpecHandler == InitHandler /\ [][HandlerNext]_vars

\* The scheduler job at the loop over the mailboxes, for any contents of the
\* two accounts.
InitSched ==
  /\ PoolInit /\ cancelled = FALSE /\ PipeInit /\ ExtIdle
  /\ cfg.maxCount = 0 /\ ~cfg.dryRun /\ cfg.tgt0 = <<>>
  /\ \A u \in SrcUIDs : cfg.srcMid[u] = u
  /\ delivered = 0
  /\ hpc = [h \in Handlers |-> "idle"]
  /\ schedIn \in SchedInputs
  /\ schedPc = "loop"
  /\ schedTodo = SchedBoxes
  /\ ledger = <<>>

SpecSched == InitSched /\ [][SchedNext]_vars

\* The case conversion applied to any string of the bounded alphabet.
InitCase ==
  /\ PoolInit /\ cancelled = FALSE /\ PipeInit
  /\ cfg.maxCount = 0 /\ ~cfg.dryRun /\ cfg.tgt0 = <<>>
  /\ \A u \in SrcUIDs : cfg.srcMid[u] = u
  /\ delivered = 0
  /\ hpc = [h \in Handlers |-> "idle"]
  /\ schedIn = <<>> /\ schedPc = "idle" /\ schedTodo = {} /\ ledger = <<>>
  /\ taskCount = 0
  /\ taskRes = <<>>
  /\ casePc = "call"
  /\ caseIn \in StringsUpTo(MaxCaseLen)
  /\ caseOut = <<>>

NextCase == CaseCall

SpecCase == InitCase /\ [][NextCase]_vars

\* ============================================================ claims ====
Occ(s, q) == Cardinality({i \in 1..Len(q) : q[i] = s})

RECURSIVE HeldOcc(_, _)
HeldOcc(s, S) ==
  IF S = {} THEN 0
  ELSE LET c == CHOOSE x \in S : TRUE IN Occ(s, held[c]) + HeldOcc(s, S \ {c})

\* Sessions that exist or are being created.
Committed ==
  Cardinality(Existing) + Cardinality(fillPending)
    + Cardinality({c \in Callers : pc[c] = "replace"})

DistinctSrc == \A u, v \in SrcUIDs : u # v => cfg.srcMid[u] # cfg.srcMid[v]

NoDupTarget == \A i, j \in 1..Len(target) : i # j => target[i].mid # target[j].mid

TargetHas(m) == SearchByMid(target, m) # {}

\* The size of the working set: the source's UIDs truncated to maxCount.
WorkingSize == IF cfg.maxCount < NSrc THEN cfg.maxCount ELSE NSrc

\* Two passes as the idempotence property takes them: distinct Message-IDs,
\* an initially empty target, dry-run off, no remote failure.
CleanRun == DistinctSrc /\ cfg.tgt0 = <<>> /\ ~cfg.dryRun /\ faults = 0

\* C1: no APPEND reaches the target while the target already holds a message
\* with the same Message-ID (the source's Message-IDs being distinct, so that
\* the only worker appending an id is the one whose search found nothing).
C1_NoAppendOnExisting ==
  [][(DistinctSrc /\ Len(target') > Len(target))
       => SearchByMid(target, target'[Len(target')].mid) = {}]_vars

\* C2: with N concurrent workers and no remote failure, every Message-ID is
\* at most once in the target's All Mail, also when two source UIDs carry the
\* same Message-ID.
C2_MessageIDAtMostOnce == faults = 0 => NoDupTarget

\* C3: in a clean run the first pass appends the whole working set; the second
\* pass issues no APPEND, takes the update path for every message and leaves
\* the number of target messages as the first pass left it.
C3_SecondPassUpdatesOnly ==
  (CleanRun /\ pass = 2) =>
     /\ passEnd[1].res = "nil"
     /\ appends[1] = WorkingSize
     /\ updates[1] = 0
     /\ appends[2] = 0
     /\ Len(target) = passEnd[1].len
     /\ Len(target) = WorkingSize
     /\ runRes = "nil" => updates[2] = WorkingSize

C3_Witness ==
  /\ CleanRun
  /\ pass = 2
  /\ runRes = "nil"
  /\ updates[2] = NSrc
  /\ Len(target) = NSrc

\* C4: when Run returns nil with dry-run off, the target holds the Message-ID
\* of every UID of the working set.
C4_Completeness ==
  (runRes = "nil" /\ ~cfg.dryRun) =>
     \A u \in SrcUIDs : u <= WorkingSize => TargetHas(cfg.srcMid[u])

\* C5: the sessions of one account checked out at the same time never exceed
\* connLimit.
C5_PoolCapacityBound == CheckedOut <= ConnLimit

C5_Witness ==
  /\ CheckedOut = ConnLimit
  /\ fillPending = {}
  /\ nrepl > 0

\* C6: a session is held by at most one caller and never idle while held; a
\* release hands back exactly the session acquired last, the holder keeps no
\* handle on it, and an operation that has returned holds nothing.
C6_ExclusiveOwnership ==
  /\ [](/\ \A s \in SessIds : Occ(s, conns) + HeldOcc(s, Callers) <= 1
        /\ \A c \in Callers : pc[c] = "idle" => held[c] = <<>>
        /\ \A c \in Callers : pc[c] \in {"using", "after"} => held[c] # <<>>)
  /\ [][\A c \in Callers :
          Len(held'[c]) < Len(held[c]) =>
            /\ conns' = Append(conns, held[c][Len(held[c])])
            /\ held'[c] = SubSeq(held[c], 1, Len(held[c]) - 1)]_vars

C6_Witness ==
  /\ \E i \in 1..Len(conns) : conns[i] > ConnLimit
  /\ \E c \in Callers : held[c] # <<>>

\* C7: getIMAPConnection hands out only a session that passed its NOOP or that
\* the factory just created; a session failing the NOOP is logged out and the
\* caller gets a new session of the factory, or the factory's error.
C7_NeverHandsOutFailedSession ==
  [][\A c \in Callers :
       /\ Len(held'[c]) > Len(held[c]) =>
            LET s == held'[c][Len(held'[c])] IN
              /\ sess'[s] = "live"
              /\ \/ /\ pc[c] = "acquire"
                    /\ conns # <<>>
                    /\ s = Head(conns)
                    /\ sess[s] = "live"
                 \/ /\ pc[c] = "replace"
                    /\ sess[s] = "new"
       /\ (/\ pc[c] = "acquire"
           /\ pc'[c] # "acquire"
           /\ conns # <<>>
           /\ conns' # conns
           /\ sess[Head(conns)] # "live") =>
            /\ sess'[Head(conns)] = "out"
            /\ pc'[c] = "replace"
            /\ held'[c] = held[c]
       /\ (pc[c] = "replace" /\ pc'[c] # "replace") =>
            \/ Len(held'[c]) = Len(held[c]) + 1
            \/ held'[c] = held[c] /\ pc'[c] \in {"idle", "after"}]_vars

C7_Witness ==
  /\ closer = "running"
  /\ \E s \in FillIds : sess[s] = "out"
  /\ \E c \in Callers :
       /\ held[c] # <<>>
       /\ held[c][Len(held[c])] > ConnLimit
       /\ sess[held[c][Len(held[c])]] = "live"

\* C8: an acquire that finds no idle session while fewer than connLimit
\* sessions exist (or are being created) does not wait: time never passes on
\* it.
C8_CreatesWhenBelowCapacity ==
  [][\A c \in Callers :
       (pc[c] = "acquire" /\ waited'[c] > waited[c])
         => Committed >= ConnLimit]_vars

\* C9: with all connLimit sessions checked out, an acquire does not keep
\* waiting once the token it was given is done.
C9_AcquireObservesToken ==
  [][\A c \in Callers :
       (cancelled /\ CheckedOut = ConnLimit /\ pc[c] = "acquire")
         => waited'[c] <= waited[c]]_vars

\* C10: releasing a checked-out session after the pool was closed does not
\* crash.
C10_ReleaseAfterCloseLogsOut == panicked # "release: send on closed channel"

\* C11: an acquire on a pool that Close has closed fails with an error: it
\* hands out no session and does not crash the process.
C11_CloseLogsOutAndRefuses == panicked # "acquire: nil connection from pool"

\* The steps of migrateMessage on one request.
MessageSteps ==
  {"search", "fetchA", "fetchU", "append", "afind", "astore", "ufind",
   "ulabels", "uflags"}

\* C12: a failure to migrate one message does not end the worker: a worker
\* leaves migrateMessages from inside a message only when the context is
\* cancelled, and such a failure alone never makes Run return an error.
C12_PerMessageFailureSwallowed ==
  [][/\ \A w \in Workers :
          (wpc[w] \in MessageSteps /\ wpc'[w] = "failed") => cancelled
     /\ (runRes # "migration" /\ runRes' = "migration") => cancelled]_vars

\* C13: when Run returns after having started the Collector and the workers,
\* the Collector and every worker have ended and delivered their result.
C13_RunWaitsForAllTasks ==
  (runPc = "returned" /\ runRes # "mailboxes") =>
     /\ collPc \in {"done", "failed"}
     /\ collErrCh = <<>>
     /\ migErrCh = <<>>
     /\ \A w \in Workers : wpc[w] \in {"done", "failed"}

\* runJob: the exit code, from whether the job was created and what Run
\* returned.
ExitCode(created, res) == IF ~created THEN 1 ELSE IF res = "nil" THEN 0 ELSE 1

\* C14: Run returns nil only after mailbox reconciliation succeeded, the
\* Collector ended its enumeration without error and every worker returned
\* nil; the exit code is 0 exactly for a nil result of Run, and not 0 when the
\* job could not be created.
C14_SuccessOnlyIfAllSucceeded ==
  /\ runRes = "nil" =>
       /\ \A w \in Workers : wpc[w] = "done"
       /\ done = NWorkers
       /\ collPc \in {"close", "return", "done"}
       /\ \A i \in 1..Len(collErrCh) : collErrCh[i] = "nil"
       /\ ExitCode(TRUE, runRes) = 0
  /\ runRes \notin {"none", "nil"} => ExitCode(TRUE, runRes) # 0
  /\ ExitCode(FALSE, runRes) # 0

C14_Witness ==
  /\ runRes = "nil"
  /\ faults = MaxFaults
  /\ ~cfg.dryRun
  /\ Len(target) = NSrc

\* C15: when Run returns out of its select while the context is cancelled, the
\* error it returns is the context's error (as Run's own result, or as the
\* error of a worker that saw the cancellation), whichever case the select
\* took.
C15_CancelledRunReportsCtxError ==
  [][(cancelled /\ runPc = "select" /\ runPc' = "returned") =>
       \/ runRes' = "ctx"
       \/ runRes' = "migration" /\ Head(migErrCh) = "ctx"]_vars

\* C16: after cancellation no task stays blocked for good: the Collector is
\* never left blocked in a send to the full queue once the context is
\* cancelled and every worker has ended.
C16_NoTaskBlockedAfterCancel ==
  ~(/\ cancelled
    /\ \/ collPc = "send" /\ batch # <<>> /\ Head(batch).env
       \/ collPc = "sentinel"
    /\ Len(messagesCh) = QueueCap
    /\ \A w \in Workers : wpc[w] \in {"done", "failed"})

\* C17: once the Collector is started, the target has every mailbox of the
\* source: reconciliation has created the ones that were missing.
C17_MissingMailboxCreatedFirst == collPc # "idle" => SrcBoxes \subseteq tgtBoxes

RECURSIVE Ascending(_)
Ascending(n) == IF n = 0 THEN <<>> ELSE Append(Ascending(n - 1), n)

\* C19: whatever the order in which the server lists the source's UIDs, the
\* working set is the maxCount smallest UIDs in ascending order (all of them
\* when there are at most maxCount, none when maxCount is 0), in every pass.
C19_WorkingSetDeterministic ==
  collPc \notin {"idle", "findAll", "failed"} => allUIDs = Ascending(WorkingSize)

C19_Witness ==
  /\ pass = 2
  /\ cfg.maxCount = 1
  /\ collPc = "fetch"
  /\ allUIDs = <<1>>

\* C20: the Collector enqueues one request (source UID, Message-ID) for each
\* fetched message that has an envelope and nothing else but the final nil;
\* at a fetched message without envelope it returns an error and enqueues
\* nothing more, and a pass whose Collector failed never ends with Run
\* returning nil.
C20_OneRequestPerEnvelope ==
  /\ [](collPc = "failed" => runRes # "nil")
  /\ [][/\ Len(messagesCh') > Len(messagesCh) =>
             /\ messagesCh' = Append(messagesCh, messagesCh'[Len(messagesCh')])
             /\ \/ /\ collPc = "sentinel"
                   /\ messagesCh'[Len(messagesCh')] = NilReq
                \/ /\ collPc = "send"
                   /\ batch # <<>>
                   /\ Head(batch).env
                   /\ messagesCh'[Len(messagesCh')] =
                        [uid |-> Head(batch).uid,
                         mid |-> cfg.srcMid[Head(batch).uid]]
                   /\ batch' = Tail(batch)
        /\ (collPc = "send" /\ batch # <<>> /\ ~Head(batch).env
              /\ <<collPc, batch>>' # <<collPc, batch>>
              /\ pass' = pass) =>
             /\ collPc' = "failed"
             /\ collErrCh' = Append(collErrCh, "err")
             /\ messagesCh' = messagesCh
        /\ (collPc = "failed" /\ pass' = pass) =>
             (collPc' = "failed" /\ Len(messagesCh') <= Len(messagesCh))]_vars

C20_Witness ==
  /\ collPc = "failed"
  /\ batch # <<>>
  /\ ~Head(batch).env
  /\ runRes = "collection"

\* ---------------------------------------------------------------- C22 ----
\* C22: backpressure.  The requests enqueued and not yet taken by a worker
\* never exceed the capacity of the queue; while the queue holds that many,
\* nothing more is enqueued and a Collector standing at a send stays there
\* until a worker takes a request.
C22_Backpressure ==
  /\ [](Len(messagesCh) <= QueueCap)
  /\ [][Len(messagesCh) = QueueCap =>
          /\ Len(messagesCh') <= Len(messagesCh)
          /\ (\/ collPc = "sentinel"
              \/ collPc = "send" /\ batch # <<>> /\ HasEnvelope(Head(batch)))
               => UNCHANGED <<collPc, batch, chunkNo>>]_vars

\* The queue is full and the Collector stands at the send of the next request.
C22_Witness ==
  /\ Len(messagesCh) = QueueCap
  /\ collPc = "send"
  /\ batch # <<>>
  /\ HasEnvelope(Head(batch))

\* ---------------------------------------------------------------- C23 ----
\* C23: every request is received by at most one worker: no two workers hold
\* the same request and a request a worker holds is no longer in the queue;
\* when Run returns nil every request enqueued has been received; a worker
\* gets a request only by receiving the head of the queue, and keeps it until
\* its migration ends.
C23_OneWorkerPerRequest ==
  /\ [](/\ \A w1, w2 \in Workers :
             w1 # w2 /\ wreq[w1] # NilReq => wreq[w1] # wreq[w2]
        /\ \A w \in Workers : \A i \in 1..Len(messagesCh) :
             wreq[w] # NilReq => messagesCh[i] # wreq[w]
        /\ (runRes = "nil" => messagesCh = <<>>))
  /\ [][\A w \in Workers :
          /\ (wreq[w]' # NilReq /\ wreq[w]' # wreq[w]) =>
               /\ wpc[w] = "recv"
               /\ messagesCh # <<>>
               /\ wreq[w]' = Head(messagesCh)
               /\ messagesCh' = Tail(messagesCh)
          /\ (wreq[w] # NilReq /\ wreq[w]' # wreq[w]) =>
               /\ wreq[w]' = NilReq
               /\ wpc[w]' \in {"recv", "failed"}]_vars

\* Both workers are migrating a request at the same time.
C23_Witness ==
  /\ \A w \in Workers : wreq[w] # NilReq /\ wpc[w] \in MessageSteps
  /\ ~cancelled
  /\ faults = 0

\* ---------------------------------------------------------------- C24 ----
\* C24: with dry-run enabled the message migration issues no APPEND and no
\* STORE to the target (no worker is ever inside AppendMessage or
\* UpdateMessage and the target's messages stay as they were), while the
\* search of the target and the fetch from the source are performed as with
\* dry-run disabled: the search leads to the fetch of the path it chose, and
\* only a dry run goes from the fetch straight back to the next request.
C24_DryRunNoMessageWrites ==
  /\ [](cfg.dryRun =>
          /\ target = cfg.tgt0
          /\ \A p \in DOMAIN appends : appends[p] = 0
          /\ \A w \in Workers :
               wpc[w] \notin {"append", "afind", "astore", "ufind", "ulabels",
                              "uflags"})
  /\ [][\A w \in Workers :
          /\ (wpc[w] = "search" /\ wpc[w]' \notin {"search", "failed"}) =>
               wpc[w]' = PathFor(FindUID(target, wreq[w].mid))
          /\ (wpc[w] \in {"fetchA", "fetchU"} /\ wpc[w]' # wpc[w]
                /\ wpc[w]' # "failed") =>
               wpc[w]' = IF cfg.dryRun THEN "recv"
                         ELSE IF wpc[w] = "fetchA" THEN "append" ELSE "ufind"]_vars

\* A dry run over two messages, one found in the target and one not, has
\* returned nil.
C24_Witness ==
  /\ cfg.dryRun
  /\ pass = 1
  /\ runRes = "nil"
  /\ Len(allUIDs) = 2
  /\ updates[1] = 1
  /\ faults = 0

\* ---------------------------------------------------------------- C25 ----
\* C25: a dry run issues no mailbox CREATE to the target: when dry-run is
\* enabled, mailbox reconciliation hands no name to CreateMailboxes.
C25_DryRunIssuesNoCreate ==
  [][(cfg.dryRun /\ runPc = "mailboxes" /\ runPc' = "select")
       => MissingMailboxNames(SrcBoxes, tgtBoxes) = {}]_vars

\* ---------------------------------------------------------------- C26 ----
\* FetchByUIDs succeeded with a reply that lacks a message or an envelope: a
\* fault of the server, not a failed attempt.
IncompleteFetchReply ==
  collPc = "fetch" /\ (collPc' \notin {"fetch", "failed"} \/ chunkNo' # chunkNo)

C27_LastSourceWriteWins ==
  [][\A w \in Workers :
       (wpc[w] = "uflags" /\ wpc[w]' = "recv") =>
         LET i == FindUID(target, wreq[w].mid) IN
           /\ target'[i].flg = wreq[w].uid
           /\ target'[i].lab = wreq[w].uid]_vars

\* ---------------------------------------------------------------- C29 ----
\* C29: a search of the target that returns no UID makes the message take the
\* append path, and one that returns one or several UIDs makes it take the
\* update path, in both cases without an error: the search step fails only
\* by a fault of the remote command.  On the update path the STOREs go to the
\* first UID the search returns and leave every other message alone.
C29_FirstUIDOnManyMatches ==
  [][\A w \in Workers :
       LET S == SearchByMid(target, wreq[w].mid) IN
         /\ (wpc[w] = "search" /\ faults' = faults /\ wpc[w]' # "search") =>
              wpc[w]' = IF S = {} THEN "fetchA" ELSE "fetchU"
         /\ (\/ wpc[w] = "ulabels" /\ wpc[w]' = "uflags"
             \/ wpc[w] = "uflags" /\ wpc[w]' = "recv") =>
              /\ S # {}
              /\ \A i \in 1..Len(target) :
                   i # Min(S) => target'[i] = target[i]]_vars

\* The search of a worker returned more than one UID and the message took the
\* update path.
C29_Witness ==
  \E w \in Workers :
    /\ wpc[w] = "fetchU"
    /\ Cardinality(SearchByMid(target, wreq[w].mid)) > 1

\* ---------------------------------------------------------------- C21 ----
\* C21: end of stream.  The queue is closed only by the Collector, right after
\* it enqueued the nil sentinel behind the last request; and from the moment
\* the Collector reaches the sentinel (also with an empty working set), if no
\* remote command has failed and the context is not cancelled, then every
\* worker returns nil and Run returns nil, unless a command fails or the
\* context is cancelled on the way.
C21_EndOfStream ==
  /\ [][(chClosed' /\ ~chClosed) =>
          /\ collPc = "close"
          /\ (messagesCh # <<>> => messagesCh[Len(messagesCh)] = NilReq)]_vars
  /\ (collPc = "sentinel" /\ faults = 0 /\ ~cancelled)
       ~> \/ runRes = "nil" /\ \A w \in Workers : wpc[w] = "done"
          \/ faults > 0
          \/ cancelled

\* Run has returned nil for an empty working set: the queue is closed and
\* every worker has returned nil.
C21_Witness ==
  /\ runRes = "nil"
  /\ chClosed
  /\ allUIDs = <<>>
  /\ \A w \in Workers : wpc[w] = "done"
  /\ faults = 0
  /\ ~cancelled

\* ---------------------------------------------------------------- C28 ----
\* C28: however often and however concurrently the request is delivered to
\* the handler, the target holds at most one message with its Message-ID.
C28_RedeliveryIsSafe ==
  Cardinality(SearchByMid(target, HReq.mid)) <= 1

\* ---------------------------------------------------------------- C30 ----
\* The messages to sync for a mailbox: the ones the source has and the
\* target lacks.
SourceMinusTarget(src, tgt, existsInTarget) ==
  IF existsInTarget THEN src \ tgt ELSE src

\* The identifiers the ledger holds for a mailbox.
LedgerIds(m) ==
  UNION {{ledger[i].messageIDs[j] : j \in 1..Len(ledger[i].messageIDs)} :
           i \in {k \in 1..Len(ledger) : ledger[k].mailboxName = m}}

\* C30: when the scheduler has written the ledger, the identifiers it wrote
\* for a mailbox are exactly the messages the source mailbox has and the
\* target mailbox lacks, and all the source's messages for a mailbox the
\* target does not have.
C30_LedgerIsSourceMinusTarget ==
  (schedPc = "loop" /\ schedTodo = {}) =>
    \A m \in SchedBoxes :
      LedgerIds(m) = SourceMinusTarget(schedIn[m].src, schedIn[m].tgt,
                                       schedIn[m].inTgt)

\* ---------------------------------------------------------------- C31 ----
\* The underscores of s stand alone between two other characters.
SingleInnerUnderscores(s) ==
  \A i \in 1..Len(s) :
    s[i] = "_" => /\ 1 < i /\ i < Len(s)
                  /\ s[i - 1] # "_"
                  /\ s[i + 1] # "_"

\* C31: CamelCaseToUpperSnakeCase puts exactly one underscore between
\* adjacent words: for an input whose underscores each stand alone between
\* two words, the result has no two underscores in a row.
C31_OneUnderscoreBetweenWords ==
  (casePc = "done" /\ SingleInnerUnderscores(caseIn)) =>
    \A i \in 1..(Len(caseOut) - 1) : ~(caseOut[i] = "_" /\ caseOut[i + 1] = "_")

\* ---------------------------------------------------------------- C32 ----
\* The chunks of q for a batch size: consecutive, none empty, none longer
\* than the size, only the last one shorter, and together they are q.
RECURSIVE ConcatChunks(_, _, _)
ConcatChunks(q, size, k) ==
  IF k >= NumChunks(q, size) THEN <<>>
  ELSE Chunk(q, size, k) \o ConcatChunks(q, size, k + 1)

ChunksPartition(q, size) ==
  /\ ConcatChunks(q, size, 0) = q
  /\ \A k \in 0..(NumChunks(q, size) - 1) :
       /\ Len(Chunk(q, size, k)) >= 1
       /\ Len(Chunk(q, size, k)) <= size
       /\ k < NumChunks(q, size) - 1 => Len(Chunk(q, size, k)) = size

\* C32: the batches of the Collector are the consecutive chunks of the
\* ascending working set: each UID is in exactly one batch, no batch is empty,
\* no batch exceeds the batch size and only the last one may be shorter; the
\* Collector requests them one after the other, and what a fetch returns are
\* UIDs of the batch requested.
C32_ConsecutiveBatches ==
  /\ [](/\ ChunksPartition(allUIDs, BatchSize)
        /\ \A n \in 0..ProbeLen : \A size \in 1..ProbeSize :
             ChunksPartition([i \in 1..n |-> i], size)
        /\ collPc \in {"fetch", "send"} =>
             chunkNo < NumChunks(allUIDs, BatchSize))
  /\ [][/\ (collPc = "fetch" /\ collPc' = "send") =>
             /\ chunkNo' = chunkNo
             /\ \A i \in 1..Len(batch') :
                  \E j \in 1..Len(Chunk(allUIDs, BatchSize, chunkNo)) :
                    batch'[i].uid = Chunk(allUIDs, BatchSize, chunkNo)[j]
        /\ (chunkNo' # chunkNo /\ allUIDs' = allUIDs /\ chunkNo' # 0) =>
             chunkNo' = chunkNo + 1]_vars

\* The Collector is about to request the second batch.
C32_Witness ==
  /\ collPc = "fetch"
  /\ chunkNo = 1
  /\ Len(allUIDs) = 2

\* ---------------------------------------------------------------- C33 ----
\* tgt2 is tgt with at most the field named changed, on message i.
OnlyLabelsDiffer(tgt, tgt2, i) ==
  /\ Len(tgt2) = Len(tgt)
  /\ \A k \in 1..Len(tgt) :
       /\ tgt2[k].mid = tgt[k].mid
       /\ tgt2[k].flg = tgt[k].flg
       /\ k # i => tgt2[k] = tgt[k]

OnlyFlagsDiffer(tgt, tgt2, i) ==
  /\ Len(tgt2) = Len(tgt)
  /\ \A k \in 1..Len(tgt) :
       /\ tgt2[k].mid = tgt[k].mid
       /\ tgt2[k].lab = tgt[k].lab
       /\ k # i => tgt2[k] = tgt[k]

\* C33: the update path does not fetch the message content and issues no
\* APPEND; a step of a worker on the update path changes the target only as
\* the label STORE, which is followed by the flag STORE, each changing only
\* that attribute of the message the Message-ID search identifies.
C33_UpdatePathStoresOnly ==
  /\ []("RFC822" \notin FetchItems("fetchU"))
  /\ [][\A w \in Workers :
          (wpc[w] \in {"fetchU", "ufind", "ulabels", "uflags"}
             /\ wpc[w]' # wpc[w]) =>
            /\ appends' = appends
            /\ wpc[w] = "fetchU" =>
                 /\ wpc[w]' \in {"ufind", "recv", "failed"}
                 /\ target' = target
            /\ wpc[w] = "ufind" =>
                 /\ wpc[w]' \in {"ulabels", "failed"}
                 /\ target' = target
            /\ wpc[w] = "ulabels" =>
                 /\ wpc[w]' \in {"uflags", "ufind", "failed"}
                 /\ IF wpc[w]' = "uflags"
                      THEN /\ OnlyLabelsDiffer(target, target',
                                               FindUID(target, wreq[w].mid))
                           /\ target'[FindUID(target, wreq[w].mid)].lab
                                = wreq[w].uid
                      ELSE target' = target
            /\ wpc[w] = "uflags" =>
                 /\ wpc[w]' \in {"recv", "ufind", "failed"}
                 /\ IF wpc[w]' = "recv"
                      THEN /\ OnlyFlagsDiffer(target, target',
                                              FindUID(target, wreq[w].mid))
                           /\ target'[FindUID(target, wreq[w].mid)].flg
                                = wreq[w].uid
                      ELSE target' = target]_vars

\* A pass over one message that was in the target has returned nil: the
\* message carries the source's labels and flags and nothing was appended.
C33_Witness ==
  /\ pass = 1
  /\ runRes = "nil"
  /\ updates[1] = 1
  /\ appends[1] = 0
  /\ Len(target) = 1
  /\ target[1].lab # 0
  /\ target[1].flg = target[1].lab

\* ---------------------------------------------------------------- C34 ----
\* C34: no caller waits for a second session while it holds one, so the pool
\* is never in a state where the initial fill is over, all the ConnLimit
\* sessions are checked out, and every caller holding one is itself waiting
\* in getIMAPConnection.
C34_NoHoldAndWait ==
  ~(/\ fillPending = {}
    /\ conns = <<>>
    /\ CheckedOut = ConnLimit
    /\ \A c \in Callers : held[c] # <<>> => pc[c] = "acquire")

\* ---------------------------------------------------------------- C35 ----
\* The sessions of the pool: idle, checked out, or being replaced by an
\* acquire that discarded one.
PoolSize ==
  Len(conns) + CheckedOut + Cardinality({c \in Callers : pc[c] = "replace"})

\* C35: once the initial fill is over and while the pool is not closed, no
\* step of an acquire reduces the number of sessions of the pool: a
\* discarded session is always replaced.
C35_AcquireKeepsPoolSize ==
  [][(fillPending = {} /\ ~closed /\ ~closed') => PoolSize' >= PoolSize]_vars

\* ---------------------------------------------------------------- C36 ----
\* C36: the sessions that exist (idle, checked out, being created by a
\* replacement or still to be delivered by the initial fill) never exceed
\* connLimit, so whoever is about to send on g.conns (a pending fill
\* goroutine, a caller that holds a session to release) finds free capacity.
C36_SendsNeverBlock ==
  /\ PoolSize + Cardinality(fillPending) <= ConnLimit
  /\ fillPending # {} => Len(conns) < ConnLimit
  /\ \A c \in Callers : held[c] # <<>> => Len(conns) < ConnLimit

\* The channel is full again after a replacement session was released into it.
C36_Witness ==
  /\ Len(conns) = ConnLimit
  /\ fillPending = {}
  /\ ~closed
  /\ \E i \in 1..Len(conns) : conns[i] > ConnLimit

\* ---------------------------------------------------------------- C37 ----
\* The end of the stream is signalled: the nil sentinel is in the queue or was
\* received from it, or the queue is closed.
EndOfStreamSignalled ==
  \/ chClosed
  \/ \E i \in 1..Len(messagesCh) : messagesCh[i] = NilReq
  \/ \E w \in Workers : wpc[w] = "done"

\* C37: a Collector that has returned an error has signalled the end of the
\* stream, so that no worker stays blocked in its receive.
C37_ErrorStillEndsStream ==
  collPc = "failed" => EndOfStreamSignalled

\* ---------------------------------------------------------------- C38 ----
\* The step of migrateMessage after which a request is migrated.
CompletionSteps ==
  IF cfg.dryRun THEN {"fetchA", "fetchU"} ELSE {"astore", "uflags"}

\* C38: when Run returns nil the queue is empty and every request enqueued
\* has been migrated to completion: the sentinel is sent only once every
\* batch is enqueued and is the last item of the queue; a worker returns nil
\* only from its receive, holding no request and leaving no request in the
\* queue; a worker lets go of a request only at the end of its migration or
\* by returning an error, and a worker that returned an error is never among
\* the workers that returned nil.
C38_NilMeansAllProcessed ==
  /\ [](/\ runRes = "nil" =>
             /\ messagesCh = <<>>
             /\ \A w \in Workers : wpc[w] = "done" /\ wreq[w] = NilReq
        /\ \A i \in 1..Len(messagesCh) :
             messagesCh[i] = NilReq =>
               /\ i = Len(messagesCh)
               /\ collPc \in {"close", "return", "done"}
        /\ collPc \in {"sentinel", "close", "return", "done"} =>
             /\ batch = <<>>
             /\ chunkNo = NumChunks(allUIDs, BatchSize))
  /\ [][\A w \in Workers :
          /\ (wpc[w]' = "done" /\ wpc[w] # "done") =>
               /\ wpc[w] = "recv"
               /\ wreq[w] = NilReq
               /\ messagesCh' = <<>>
          /\ (wreq[w] # NilReq /\ wreq[w]' = NilReq) =>
               \/ wpc[w] \in CompletionSteps /\ wpc[w]' = "recv"
               \/ wpc[w]' = "failed"
          /\ wpc[w] = "failed" => wpc[w]' = "failed"]_vars

\* Run returned nil in the first pass after every source message was
\* enqueued and migrated, one by an APPEND and one by an update.
C38_Witness ==
  /\ runRes = "nil"
  /\ pass = 1
  /\ Len(allUIDs) = NSrc
  /\ faults = 0
  /\ ~cfg.dryRun
  /\ appends[1] + updates[1] = NSrc
  /\ messagesCh = <<>>

\* ---------------------------------------------------------------- C39 ----
\* The tasks of Run that have not sent their result yet.
CollRunning == collPc \notin {"idle", "done", "failed"}
WorkerRunning(w) == wpc[w] \notin {"idle", "done", "failed"}

\* C39: the Collector and every worker send their result exactly once, and
\* the send never blocks, also after Run has returned: while a task runs its
\* result channel has room (capacity 1 for the Collector, the number of
\* workers for the workers), a result enters a channel only when a task
\* returns, one per return, and a task that has returned sends nothing more
\* (until the process ends and the job is started anew).
C39_ResultSendNeverBlocks ==
  /\ [](/\ CollRunning => Len(collErrCh) < 1
        /\ \A w \in Workers : WorkerRunning(w) => Len(migErrCh) < MigErrChCap
        /\ Len(collErrCh) <= 1
        /\ Len(migErrCh) <= NWorkers)
  /\ [][pass' = pass =>
          /\ Len(collErrCh') > Len(collErrCh) =>
               /\ CollRunning /\ ~CollRunning'
               /\ Len(collErrCh') = Len(collErrCh) + 1
          /\ (CollRunning /\ ~CollRunning') =>
               Len(collErrCh') = Len(collErrCh) + 1
          /\ Len(migErrCh') > Len(migErrCh) =>
               /\ Len(migErrCh') = Len(migErrCh) + 1
               /\ Cardinality({w \in Workers :
                                 WorkerRunning(w) /\ ~WorkerRunning(w)'}) = 1
          /\ \A w \in Workers :
               (WorkerRunning(w) /\ ~WorkerRunning(w)') =>
                  Len(migErrCh') = Len(migErrCh) + 1]_vars

\* Run has returned the Collector's error; one worker has sent its result
\* since, nobody will receive it, and the other worker is still running.
C39_Witness ==
  /\ runPc = "returned"
  /\ runRes = "collection"
  /\ Len(migErrCh) = 1
  /\ \E w \in Workers : WorkerRunning(w)

\* ---------------------------------------------------------------- C40 ----
\* C40: the worker job is started with one task per chunk document written,
\* and no task fails for a field missing in its document.
C40_ChunksAccepted ==
  /\ (schedPc = "done" /\ ledger # <<>>) =>
        /\ taskCount = Len(ledger)
        /\ DOMAIN taskRes = 0..(Len(ledger) - 1)
  /\ \A i \in DOMAIN taskRes :
        taskRes[i] \notin {"missing mailbox name", "missing message IDs"}

====
